---------------------------- MODULE Spec2Model ----------------------------
(***************************************************************************)
(* The blockchain comparison dashboard: src/app.py (main and the filter,   *)
(* aggregation and pivot stages) on top of src/data.py (the storage        *)
(* wrapper with its module globals).                                       *)
(*                                                                         *)
(* A DataFrame is a record [tag |-> "df", rows |-> <<row, ...>>] whose     *)
(* rows are functions from column names to cells; Python's None and an     *)
(* unassigned local are the records NoneV and Unbound.  A period cell is   *)
(* either the JSON string the provider stored (kind "str") or the          *)
(* Timestamp pd.to_datetime makes of it (kind "ts").  Floating-point       *)
(* results are exact fractions plus the three IEEE specials.               *)
(***************************************************************************)
EXTENDS Integers, Sequences, FiniteSets, TLC

\* Bounds of the model: the rows of a fetched frame the stages are run on,
\* and the rows of a JSON body the bucket serves.
MaxLen == 2
MainLen == 1

\* Calendar days, times of day (midnight or later) and metric values (fees
\* and transaction rates are not negative).
Days == {1, 2}
Tods == {0, 1}
Values == {0, 1}

NoneV == [tag |-> "None"]
Unbound == [tag |-> "unbound"]

\* ----------------------------------------------------------------- helpers

RECURSIVE SeqSum(_)
SeqSum(s) == IF s = <<>> THEN 0 ELSE Head(s) + SeqSum(Tail(s))

RECURSIVE SelectRows(_, _)
SelectRows(s, keep) ==
    IF s = <<>> THEN <<>>
    ELSE IF keep[Len(s)] THEN Append(SelectRows(SubSeq(s, 1, Len(s) - 1), keep), s[Len(s)])
    ELSE SelectRows(SubSeq(s, 1, Len(s) - 1), keep)

Abs(n) == IF n < 0 THEN 0 - n ELSE n

SetMin(S) == CHOOSE x \in S : \A y \in S : x <= y
SetMax(S) == CHOOSE x \in S : \A y \in S : x >= y

RECURSIVE GCD(_, _)
GCD(a, b) == IF b = 0 THEN a ELSE GCD(b, a % b)

\* Python's ordering of the category labels the model uses (code points).
SortedNames == <<"Avalanche", "BTC", "ETH", "Solana">>
NameRank(c) == CHOOSE i \in 1..Len(SortedNames) : SortedNames[i] = c
NameLess(a, b) == NameRank(a) < NameRank(b)

\* Timestamps order by day, then by time of day.
TsKey(p) == p.day * 2 + p.tod
TsLess(p, q) == TsKey(p) < TsKey(q)

\* All sequences holding each element of the finite set S exactly once.
Perms(S) == {s \in [1..Cardinality(S) -> S] : \A x \in S : \E i \in DOMAIN s : s[i] = x}

\* ------------------------------------------------------------------ floats

Frac(n, d) ==
    LET g == GCD(Abs(n), d)
    IN  [k |-> "num", n |-> n \div g, d |-> d \div g]
Num(n) == [k |-> "num", n |-> n, d |-> 1]
NaN == [k |-> "nan", n |-> 0, d |-> 1]
PosInf == [k |-> "inf", n |-> 1, d |-> 1]
NegInf == [k |-> "inf", n |-> 0 - 1, d |-> 1]

\* Mutant of IntDiv: a zero divisor coerced to the result 0.
IntDivZeroIsZero(v, t) ==
    IF t # 0 THEN (IF t > 0 THEN Frac(v, t) ELSE Frac(0 - v, 0 - t))
    ELSE Num(0)

\* Float division of two integers: x / 0 is NaN or an infinity, never a raise.
IntDiv(v, t) ==
    IF t # 0 THEN (IF t > 0 THEN Frac(v, t) ELSE Frac(0 - v, 0 - t))
    ELSE IF v = 0 THEN NaN
    ELSE IF v > 0 THEN PosInf
    ELSE NegInf

FTimes(x, c) == IF x.k = "num" THEN Frac(x.n * c, x.d) ELSE x

FAdd(x, y) ==
    IF x.k = "nan" \/ y.k = "nan" THEN NaN
    ELSE IF x.k = "inf" /\ y.k = "inf" THEN (IF x.n = y.n THEN x ELSE NaN)
    ELSE IF x.k = "inf" THEN x
    ELSE IF y.k = "inf" THEN y
    ELSE Frac(x.n * y.d + y.n * x.d, x.d * y.d)

RECURSIVE FSum(_)
FSum(s) == IF s = <<>> THEN Num(0) ELSE FAdd(Head(s), FSum(Tail(s)))

\* ------------------------------------------------------------- data frames

DF(rows) == [tag |-> "df", rows |-> rows]
IsDF(x) == x.tag = "df"
Empty(df) == df.rows = <<>>
\* df is None or df.empty
NoneOrEmpty(df) == IF df = NoneV THEN TRUE ELSE Empty(df)

StrCell(d, t, f) == [kind |-> "str", day |-> d, tod |-> t, fmt |-> f]
TsCell(d, t) == [kind |-> "ts", day |-> d, tod |-> t]

\* pd.to_datetime on one cell: the string is parsed, a Timestamp is kept.
to_datetime(c) == TsCell(c.day, c.tod)

\* pd.api.types.is_datetime64_any_dtype(df[col])
is_datetime(df, col) == df.rows # <<>> /\ \A i \in DOMAIN df.rows : df.rows[i][col].kind = "ts"

\* df[col] = pd.to_datetime(df[col]): every cell of the column is replaced.
ConvertColumn(df, col) ==
    DF([i \in DOMAIN df.rows |-> [df.rows[i] EXCEPT ![col] = to_datetime(@)]])

\* Values of a column, in row order.
Column(df, col) == [i \in DOMAIN df.rows |-> df.rows[i][col]]
ColumnSet(df, col) == {df.rows[i][col] : i \in DOMAIN df.rows}


\* ------------------------------------------------------------ filter stage

\* Timestamp.date(): the calendar date, the time of day dropped.
DateOf(ts) == ts.day

\* Mutant of DateMask: the timestamps themselves compared with the dates
\* at midnight, so that the time of day counts.
DateMaskTimestamps(df, pcol, date_range) ==
    [i \in DOMAIN df.rows |->
        /\ TsKey(df.rows[i][pcol]) >= date_range[1] * 2
        /\ TsKey(df.rows[i][pcol]) <= date_range[2] * 2]

\* mask = (df[pcol].dt.date >= date_range[0]) & (df[pcol].dt.date <= date_range[1])
DateMask(df, pcol, date_range) ==
    [i \in DOMAIN df.rows |->
        /\ DateOf(df.rows[i][pcol]) >= date_range[1]
        /\ DateOf(df.rows[i][pcol]) <= date_range[2]]

\* Mutant of IsinMask: an empty selection read as no restriction.
IsinMaskAllWhenEmpty(df, ccol, selected) ==
    [i \in DOMAIN df.rows |-> selected = {} \/ df.rows[i][ccol] \in selected]

\* filtered_df[filtered_df[ccol].isin(selected)]
IsinMask(df, ccol, selected) == [i \in DOMAIN df.rows |-> df.rows[i][ccol] \in selected]

\* df[mask]: a new frame holding the rows the mask keeps, in their order.
Mask(df, mask) == DF(SelectRows(df.rows, mask))

\* The "# Filter data" block of apply_filters and apply_filters_tps.
FilterData(df, pcol, ccol, date_range, selected) ==
    LET byDate == Mask(df, DateMask(df, pcol, date_range))
    IN  Mask(byDate, IsinMask(byDate, ccol, selected))

\* ------------------------------------------------------- aggregation stage

\* df.groupby(keycol)[valcol].sum() at one key.
GroupTotal(df, keycol, valcol, key) ==
    SeqSum([i \in DOMAIN df.rows |->
               IF df.rows[i][keycol] = key THEN df.rows[i][valcol] ELSE 0])

\* Mutant of groupby_sum: .first() in place of .sum(), the value of the
\* first record of each category.
groupby_first(df) ==
    LET cats == ColumnSet(df, "category")
        order == CHOOSE s \in Perms(cats) :
                     \A i, j \in DOMAIN s : i < j => NameLess(s[i], s[j])
    IN  [i \in DOMAIN order |->
            [category |-> order[i],
             total |-> df.rows[SetMin({j \in DOMAIN df.rows :
                                          df.rows[j]["category"] = order[i]})]["gas_fees"]]]

\* df.groupby('category')['gas_fees'].sum(): one entry per category, the
\* group keys sorted (groupby's sort=True), not in order of appearance.
groupby_sum(df) ==
    LET cats == ColumnSet(df, "category")
        order == CHOOSE s \in Perms(cats) :
                     \A i, j \in DOMAIN s : i < j => NameLess(s[i], s[j])
    IN  [i \in DOMAIN order |->
            [category |-> order[i],
             total |-> GroupTotal(df, "category", "gas_fees", order[i])]]

\* Mutant of sort_values_desc: ascending=False left out.
sort_values_asc(series) ==
    {s \in Perms({series[i] : i \in DOMAIN series}) :
        \A i, j \in DOMAIN s : i < j => s[i].total <= s[j].total}

\* Series.sort_values(ascending=False) with the default kind='quicksort',
\* which is not a stable sort: every descending arrangement is a possible
\* result, whatever the order of equal totals.
sort_values_desc(series) ==
    {s \in Perms({series[i] : i \in DOMAIN series}) :
        \A i, j \in DOMAIN s : i < j => s[i].total >= s[j].total}

\* Mutant of percentage_frame: the total of the whole frame in place of the
\* total of the record's month.
percentage_of_grand_total(df) ==
    DF([i \in DOMAIN df.rows |->
        LET r == df.rows[i]
            t == SeqSum([j \in DOMAIN df.rows |-> df.rows[j]["gas_fees"]])
        IN  [month |-> r["month"], category |-> r["category"],
             gas_fees |-> r["gas_fees"], total_fees |-> t,
             percentage |-> FTimes(IntDiv(r["gas_fees"], t), 100)]])

\* create_transaction_fees_chart_relative: monthly totals merged back on
\* 'month' and percentage = gas_fees / total_fees * 100, per record.
percentage_frame(df) ==
    DF([i \in DOMAIN df.rows |->
        LET r == df.rows[i]
            t == GroupTotal(df, "month", "gas_fees", r["month"])
        IN  [month |-> r["month"], category |-> r["category"],
             gas_fees |-> r["gas_fees"], total_fees |-> t,
             percentage |-> FTimes(IntDiv(r["gas_fees"], t), 100)]])

\* ----------------------------------------------------------- shaping stage

\* Two rows with the same (index, columns) pair.
HasDuplicates(df, icol, ccol) ==
    \E i, j \in DOMAIN df.rows :
        /\ i < j
        /\ df.rows[i][icol] = df.rows[j][icol]
        /\ df.rows[i][ccol] = df.rows[j][ccol]

\* The index of a pivot: the distinct periods, ascending.
PivotIndex(df, icol) ==
    CHOOSE s \in Perms(ColumnSet(df, icol)) :
        \A i, j \in DOMAIN s : i < j => TsLess(s[i], s[j])

\* The columns of a pivot: the distinct categories, sorted.
PivotColumns(df, ccol) ==
    CHOOSE s \in Perms(ColumnSet(df, ccol)) :
        \A i, j \in DOMAIN s : i < j => NameLess(s[i], s[j])

\* The values of the rows at one (period, category) pair, in row order.
GroupValues(df, icol, ccol, vcol, p, c) ==
    LET hit == [i \in DOMAIN df.rows |->
                   df.rows[i][icol] = p /\ df.rows[i][ccol] = c]
        rows == SelectRows(df.rows, hit)
    IN  [i \in DOMAIN rows |-> rows[i][vcol]]

\* df.pivot(index, columns, values), defined when no pair is duplicated:
\* the one value of a pair, NaN where the input has no such pair.
pivot(df, icol, ccol, vcol) ==
    [index |-> PivotIndex(df, icol),
     columns |-> PivotColumns(df, ccol),
     cell |-> [p \in ColumnSet(df, icol), c \in ColumnSet(df, ccol) |->
                  LET vs == GroupValues(df, icol, ccol, vcol, p, c)
                  IN  IF vs = <<>> THEN NaN ELSE Num(vs[1])]]

\* Mutant of pivot_table_mean: aggfunc='sum'.
pivot_table_sum(df, icol, ccol, vcol) ==
    [index |-> PivotIndex(df, icol),
     columns |-> PivotColumns(df, ccol),
     cell |-> [p \in ColumnSet(df, icol), c \in ColumnSet(df, ccol) |->
                  LET vs == GroupValues(df, icol, ccol, vcol, p, c)
                  IN  IF vs = <<>> THEN NaN ELSE Num(SeqSum(vs))]]

\* df.pivot_table(index, columns, values, aggfunc='mean'): the mean of the
\* values of a pair, NaN where the input has no such pair.
pivot_table_mean(df, icol, ccol, vcol) ==
    [index |-> PivotIndex(df, icol),
     columns |-> PivotColumns(df, ccol),
     cell |-> [p \in ColumnSet(df, icol), c \in ColumnSet(df, ccol) |->
                  LET vs == GroupValues(df, icol, ccol, vcol, p, c)
                  IN  IF vs = <<>> THEN NaN ELSE IntDiv(SeqSum(vs), Len(vs))]]

\* Mutant of sort_index_desc: ascending=False left out, the index stays
\* as the pivot made it.
sort_index_asc(pt) == pt

\* pivoted_df.sort_index(ascending=False)
sort_index_desc(pt) ==
    [pt EXCEPT !.index = [i \in DOMAIN pt.index |-> pt.index[Len(pt.index) + 1 - i]]]

\* Mutant of RowSum: skipna=False, a NaN cell makes the sum NaN.
RowSumKeepNaN(pt, p) ==
    FSum([i \in DOMAIN pt.columns |-> pt.cell[p, pt.columns[i]]])

\* pivoted_df.sum(axis=1) at one row: NaN cells are skipped (skipna).
RowSum(pt, p) ==
    FSum([i \in DOMAIN pt.columns |->
             IF pt.cell[p, pt.columns[i]].k = "nan" THEN Num(0)
             ELSE pt.cell[p, pt.columns[i]]])

\* pivoted_df['Total'] = pivoted_df.sum(axis=1)
add_total(pt) ==
    [index |-> pt.index,
     columns |-> pt.columns,
     cell |-> pt.cell,
     Total |-> [p \in {pt.index[i] : i \in DOMAIN pt.index} |-> RowSum(pt, p)]]


\* -------------------------------------------------- data.py: storage wrapper

\* What one get_object call and the parse of its body can come to: a
\* ClientError (NoSuchKey, AccessDenied, another code), another exception,
\* a body that is not JSON, or a JSON list of records with columns cols.
Failure(res) == [res |-> res, cols |-> {}, rows |-> <<>>]
Json(cols, rows) == [res |-> "Json", cols |-> cols, rows |-> rows]
FailureKinds == {"NoSuchKey", "AccessDenied", "ClientError", "Exception", "BadJson"}

LogEntry(src, msg, cols) == [src |-> src, msg |-> msg, cols |-> cols]
Result(ret, log, calls) == [ret |-> ret, log |-> log, calls |-> calls]

\* The value a fetch hands back when it got as far as raw data.
RawData(cols, rows) == [tag |-> "data", cols |-> cols, rows |-> rows]

\* Mutant of fetch_s3_object: the "s3_client is None" guard left out, the
\* request is sent whatever the client.
fetch_s3_object_unguarded(client, file_name, outcome) ==
    IF outcome.res \in {"NoSuchKey", "AccessDenied", "ClientError", "Exception"}
    THEN Result(NoneV, {LogEntry("fetch_s3_object", outcome.res, {})}, {file_name})
    ELSE Result([tag |-> "response", body |-> outcome], {}, {file_name})

\* fetch_s3_object(file_name): None without a client; otherwise one
\* get_object request, whose errors are logged and become None.
fetch_s3_object(client, file_name, outcome) ==
    IF client = "None"
    THEN Result(NoneV, {LogEntry("fetch_s3_object", "AWS not initialized", {})}, {})
    ELSE IF outcome.res \in {"NoSuchKey", "AccessDenied", "ClientError", "Exception"}
    THEN Result(NoneV, {LogEntry("fetch_s3_object", outcome.res, {})}, {file_name})
    ELSE Result([tag |-> "response", body |-> outcome], {}, {file_name})

\* fetch_json_data(file_name): None without a client or without a file
\* name; otherwise the parsed body of the object, None when it does not parse.
fetch_json_data(client, default_file, file_name, outcome) ==
    IF client = "None"
    THEN Result(NoneV, {LogEntry("fetch_json_data", "AWS not initialized", {})}, {})
    ELSE IF file_name = "None" /\ default_file = "None"
    THEN Result(NoneV, {LogEntry("fetch_json_data", "No file name", {})}, {})
    ELSE LET name == IF file_name = "None" THEN default_file ELSE file_name
             got == fetch_s3_object(client, name, outcome)
         IN  IF got.ret = NoneV THEN got
             ELSE IF got.ret.body.res = "BadJson"
             THEN Result(NoneV, got.log \cup {LogEntry("fetch_json_data", "Error parsing JSON", {})},
                         got.calls)
             ELSE Result(RawData(got.ret.body.cols, got.ret.body.rows), got.log, got.calls)

\* df[[c1, c2, c3]]: the frame of the named columns only.
Project(rows, cols) == DF([i \in DOMAIN rows |-> [c \in cols |-> rows[i][c]]])

FeeColumns == {"month", "category", "gas_fees"}
TpsColumns == {"block_date", "blockchain", "tps"}

\* Mutant of FrameOrNone: a frame of the required columns that are
\* present is returned when some are missing.
FrameOrNonePartial(src, got, required) ==
    IF got.ret = NoneV \/ got.ret.rows = <<>> THEN Result(NoneV, got.log, got.calls)
    ELSE IF required \subseteq got.ret.cols
    THEN Result(Project(got.ret.rows, required), got.log, got.calls)
    ELSE Result(Project(got.ret.rows, required \cap got.ret.cols),
                got.log \cup {LogEntry(src, "Missing columns", required \ got.ret.cols)},
                got.calls)

\* The frame or None of fetch_tx_fee / fetch_tps_data once the JSON is in:
\* an empty list is no data; a missing required column is logged with the
\* list of the missing ones and no frame is returned.
FrameOrNone(src, got, required) ==
    IF got.ret = NoneV \/ got.ret.rows = <<>> THEN Result(NoneV, got.log, got.calls)
    ELSE IF required \subseteq got.ret.cols
    THEN Result(Project(got.ret.rows, required), got.log, got.calls)
    ELSE Result(NoneV,
                got.log \cup {LogEntry(src, "Missing columns", required \ got.ret.cols)},
                got.calls)

\* fetch_tx_fee(json_file)
fetch_tx_fee(client, default_file, json_file, outcome) ==
    IF client = "None"
    THEN Result(NoneV, {LogEntry("fetch_tx_fee", "AWS not initialized", {})}, {})
    ELSE IF json_file = "None"
    THEN Result(NoneV, {LogEntry("fetch_tx_fee", "No JSON file name", {})}, {})
    ELSE FrameOrNone("fetch_tx_fee",
                     fetch_json_data(client, default_file, json_file, outcome), FeeColumns)

\* 'Avalanche' if x.lower() is avalanche_c or avalanche, else x.title()
ChainTitle(x) ==
    IF x \in {"avalanche_c", "avalanche"} THEN "Avalanche"
    ELSE IF x = "solana" THEN "Solana"
    ELSE x

\* result_df['blockchain'] = result_df['blockchain'].apply(...)
TitleChains(df) ==
    DF([i \in DOMAIN df.rows |-> [df.rows[i] EXCEPT !["blockchain"] = ChainTitle(@)]])

\* fetch_tps_data(json_file)
fetch_tps_data(client, default_file, json_file, outcome) ==
    IF client = "None"
    THEN Result(NoneV, {LogEntry("fetch_tps_data", "AWS not initialized", {})}, {})
    ELSE IF json_file = "None"
    THEN Result(NoneV, {LogEntry("fetch_tps_data", "No JSON file name", {})}, {})
    ELSE LET got == FrameOrNone("fetch_tps_data",
                                fetch_json_data(client, default_file, json_file, outcome),
                                TpsColumns)
         IN  IF got.ret = NoneV THEN got
             ELSE Result(TitleChains(got.ret), got.log, got.calls)


\* fetch_csv_data(file_name): None without a client; otherwise the body of
\* the object read as CSV, None when the object is not there or the body
\* does not parse.
fetch_csv_data(client, file_name, outcome, parses) ==
    IF client = "None"
    THEN Result(NoneV, {LogEntry("fetch_csv_data", "AWS not initialized", {})}, {})
    ELSE LET got == fetch_s3_object(client, file_name, outcome)
         IN  IF got.ret = NoneV THEN got
             ELSE IF ~parses
             THEN Result(NoneV, got.log \cup {LogEntry("fetch_csv_data", "Error parsing CSV", {})},
                         got.calls)
             ELSE Result([tag |-> "csv", body |-> got.ret.body], got.log, got.calls)

\* What list_objects_v2 can come to: an exception, a response without
\* 'Contents', or a response with the keys of the bucket.
ListKinds == {"fails", "empty", "keys"}

\* list_bucket_files(prefix): None without a client; otherwise one
\* list_objects_v2 request, its keys, [] without 'Contents', None on an error.
list_bucket_files(client, listing) ==
    IF client = "None"
    THEN Result(NoneV, {LogEntry("list_bucket_files", "AWS not initialized", {})}, {})
    ELSE IF listing = "fails"
    THEN Result(NoneV, {LogEntry("list_bucket_files", "Error listing bucket files", {})},
                {"list_objects_v2"})
    ELSE Result([tag |-> "keys",
                 keys |-> IF listing = "keys" THEN {"key"} ELSE {}],
                {}, {"list_objects_v2"})

\* ------------------------------------------------------------ input domains

FeeCategories == {"ETH", "BTC"}
RawChains == {"avalanche_c", "avalanche", "solana"}
MainValues == {0, 1}

\* Non-empty sequences of at most n elements of S.
Frames(S, n) == UNION {[1..k -> S] : k \in 1..n}

\* The period strings of one provider dump share one format: dates only, or
\* dates with a time of day.
PeriodStrings(fmt, tods) ==
    IF fmt = "date" THEN {StrCell(d, 0, "date") : d \in Days}
    ELSE {StrCell(d, t, "datetime") : d \in Days, t \in tods}

FeeRecords(fmt, tods, vals) ==
    {[month |-> p, category |-> c, gas_fees |-> v, extra |-> 0] :
        p \in PeriodStrings(fmt, tods), c \in FeeCategories, v \in vals}

TpsRecords(fmt, tods, vals) ==
    {[block_date |-> p, blockchain |-> c, tps |-> v, extra |-> 0] :
        p \in PeriodStrings(fmt, tods), c \in RawChains, v \in vals}

Restrict(rows, cols) == [i \in DOMAIN rows |-> [c \in cols |-> rows[i][c]]]

\* JSON bodies the bucket may hold for the fee query in a run of main: an
\* empty list, or records that all have the same columns.
FeePayloads ==
    {Json(cols, Restrict(rows, cols)) :
        cols \in SUBSET (FeeColumns \cup {"extra"}),
        rows \in {<<>>} \cup Frames(FeeRecords("date", {0}, MainValues), MainLen)}

TpsPayloads ==
    {Json(cols, Restrict(rows, cols)) :
        cols \in SUBSET (TpsColumns \cup {"extra"}),
        rows \in {<<>>} \cup Frames(TpsRecords("date", {0}, MainValues), MainLen)}

Outcomes(payloads) == {Failure(k) : k \in FailureKinds} \cup payloads

\* The frames fetch_tx_fee / fetch_tps_data can return, up to MaxLen rows.
FeeFrames ==
    {Project(rows, FeeColumns) :
        rows \in Frames(FeeRecords("date", {0}, Values), MaxLen)
                 \cup Frames(FeeRecords("datetime", Tods, Values), MaxLen)}

TpsFrames ==
    {TitleChains(Project(rows, TpsColumns)) :
        rows \in Frames(TpsRecords("date", {0}, Values), MaxLen)
                 \cup Frames(TpsRecords("datetime", Tods, Values), MaxLen)}

\* -------------------------------------------------------------------- state

VARIABLES
    pc,                     \* where main is
    raised,                 \* the exception that left main, "None" if none
    page,                   \* what main has put on the page
    log,                    \* what the latest call of data.py logged
    s3_calls,               \* the requests that call sent to the storage service
    init_ret,               \* what the last initialize_aws call returned
    aws_access_key_id, aws_secret_access_key, aws_bucket_name,
    aws_json_file, region_name, s3_client,          \* data.py's globals
    df_tx_fee, df_tps,      \* main's locals
    date_range, selected_categories, filtered_df_tx_fee,
    df_pct, blockchain_totals, pivoted_df,
    tps_date_range, selected_blockchains, filtered_df_tps, pivoted_tps,
    served,                 \* the object the bucket serves to a direct call
    ret                     \* what the last direct call of data.py returned

globals == <<aws_access_key_id, aws_secret_access_key, aws_bucket_name,
             aws_json_file, region_name, s3_client>>
feeVars == <<date_range, selected_categories, filtered_df_tx_fee,
             df_pct, blockchain_totals, pivoted_df>>
tpsVars == <<tps_date_range, selected_blockchains, filtered_df_tps, pivoted_tps>>
callVars == <<served, ret>>
vars == <<pc, raised, page, log, s3_calls, init_ret, globals, df_tx_fee, df_tps, feeVars, tpsVars,
          callVars>>

Range(lo, hi) == [tag |-> "range", lo |-> lo, hi |-> hi]
Selection(items) == [tag |-> "list", items |-> items]
Series(items) == [tag |-> "series", items |-> items]
Table(pt) == [tag |-> "table", t |-> pt]

FEE_FILE == "DUNE_QUERY_4667263.json"
TPS_FILE == "DUNE_QUERY_4660344.json"

\* A fresh process: data.py's globals are None, main has assigned nothing.
Init ==
    /\ pc = "start"
    /\ raised = "None"
    /\ page = {}
    /\ log = {}
    /\ s3_calls = {}
    /\ init_ret = "None"
    /\ aws_access_key_id = "None"
    /\ aws_secret_access_key = "None"
    /\ aws_bucket_name = "None"
    /\ aws_json_file = "None"
    /\ region_name = "None"
    /\ s3_client = "None"
    /\ df_tx_fee = Unbound
    /\ df_tps = Unbound
    /\ date_range = Unbound
    /\ selected_categories = Unbound
    /\ filtered_df_tx_fee = Unbound
    /\ df_pct = Unbound
    /\ blockchain_totals = Unbound
    /\ pivoted_df = Unbound
    /\ tps_date_range = Unbound
    /\ selected_blockchains = Unbound
    /\ filtered_df_tps = Unbound
    /\ pivoted_tps = Unbound
    /\ served = Unbound
    /\ ret = Unbound


\* ------------------------------------------------- main: fetching the data

\* What st.secrets holds: no secrets file at all (the lookup raises), no
\* "aws" section, an "aws" section without bucket_name, or a full one.
SecretsKinds == {"nofile", "noaws", "nobucket", "full"}
\* boto3.client(...) raises; or list_buckets() raises; or both succeed.
ConnectKinds == {"client_fails", "list_fails", "connected"}

\* initialize_aws() called without arguments: its effect on the globals,
\* the log and the storage service, and what it returns.  The globals are
\* assigned only when st.secrets has an "aws" section; the client global
\* is assigned as soon as boto3.client returns, before the connection test.
InitializeAwsCall(secrets, connect) ==
    LET has == secrets \in {"nobucket", "full"}
        key == IF has THEN "key" ELSE aws_access_key_id
        secret == IF has THEN "secret" ELSE aws_secret_access_key
        bucket == IF secrets = "full" THEN "bucket"
                  ELSE IF has THEN "None" ELSE aws_bucket_name
        missing == key = "None" \/ secret = "None" \/ bucket = "None"
    IN  IF secrets = "nofile"
        THEN /\ init_ret' = "raised"
             /\ log' = {}
             /\ s3_calls' = {}
             /\ UNCHANGED globals
        ELSE /\ aws_access_key_id' = key
             /\ aws_secret_access_key' = secret
             /\ aws_bucket_name' = bucket
             /\ aws_json_file' = IF has THEN "json_file" ELSE aws_json_file
             /\ region_name' = IF has THEN "region" ELSE region_name
             /\ s3_client' = IF missing \/ connect = "client_fails"
                             THEN s3_client ELSE "client"
             /\ s3_calls' = IF missing \/ connect = "client_fails"
                            THEN {} ELSE {"list_buckets"}
             /\ init_ret' = IF ~missing /\ connect = "connected" THEN "True" ELSE "False"
             /\ log' =
                    (IF missing
                     THEN {LogEntry("initialize_aws", "Missing required AWS credentials", {})}
                     ELSE IF connect = "connected" THEN {}
                     ELSE {LogEntry("initialize_aws", "Failed to initialize AWS", {})})

\* main's "data.initialize_aws()" and, when it raises, main's except
\* clause, which leaves df_tx_fee and df_tps unassigned.
initialize_aws ==
    /\ pc = "start"
    /\ \E secrets \in SecretsKinds, connect \in ConnectKinds :
        /\ InitializeAwsCall(secrets, connect)
        /\ IF secrets = "nofile"
           THEN /\ page' = page \cup {"error: Error accessing data",
                                      "info: Using sample data for demonstration"}
                /\ pc' = "filter"
           ELSE /\ page' = page
                /\ pc' = "fetch_tx_fee"
    /\ UNCHANGED <<raised, df_tx_fee, df_tps, feeVars, tpsVars, callVars>>

\* df_tx_fee = data.fetch_tx_fee("DUNE_QUERY_4667263.json")
FetchTxFee ==
    /\ pc = "fetch_tx_fee"
    /\ \E outcome \in Outcomes(FeePayloads) :
        LET r == fetch_tx_fee(s3_client, aws_json_file, FEE_FILE, outcome)
        IN  /\ df_tx_fee' = r.ret
            /\ log' = r.log
            /\ s3_calls' = r.calls
    /\ pc' = "fetch_tps"
    /\ UNCHANGED <<raised, page, init_ret, globals, df_tps, feeVars, tpsVars, callVars>>

\* df_tps = data.fetch_tps_data("DUNE_QUERY_4660344.json")
FetchTps ==
    /\ pc = "fetch_tps"
    /\ \E outcome \in Outcomes(TpsPayloads) :
        LET r == fetch_tps_data(s3_client, aws_json_file, TPS_FILE, outcome)
        IN  /\ df_tps' = r.ret
            /\ log' = r.log
            /\ s3_calls' = r.calls
    /\ pc' = "check_returned"
    /\ UNCHANGED <<raised, page, init_ret, globals, df_tx_fee, feeVars, tpsVars, callVars>>

\* "# Check if data was returned": two warnings, and main goes on.
CheckReturned ==
    /\ pc = "check_returned"
    /\ page' = page
          \cup (IF NoneOrEmpty(df_tx_fee)
                THEN {"warning: No transaction fee data returned."} ELSE {})
          \cup (IF NoneOrEmpty(df_tps)
                THEN {"warning: No TPS data returned."} ELSE {})
    /\ pc' = "filter"
    /\ UNCHANGED <<raised, log, s3_calls, init_ret, globals, df_tx_fee, df_tps, feeVars, tpsVars, callVars>>


\* ------------------------------------------------ main: the fee tab (tab 1)

\* The frame as apply_filters leaves it after its "# Process data" lines:
\* the period column is converted unless it already holds timestamps.
Processed(df, pcol) == IF is_datetime(df, pcol) THEN df ELSE ConvertColumn(df, pcol)

\* The dates the date_input widget offers: min_value .. max_value.
DateChoices(df, pcol) ==
    LET dates == {DateOf(c) : c \in ColumnSet(df, pcol)}
    IN  SetMin(dates)..SetMax(dates)

\* filtered_df_tx_fee = apply_filters(df_tx_fee), main line 488.  The call
\* is outside every try block: what it raises leaves main.
apply_filters ==
    /\ pc = "filter"
    /\ \/ \* df is None (the fetch failed) or was never assigned: df['month'] raises.
          /\ ~IsDF(df_tx_fee)
          /\ raised' = IF df_tx_fee = NoneV THEN "TypeError" ELSE "UnboundLocalError"
          /\ pc' = "crashed"
          /\ UNCHANGED <<df_tx_fee, feeVars>>
       \/ \* The date widget holds a half-entered range: date_range[1] raises.
          /\ IsDF(df_tx_fee)
          /\ df_tx_fee' = Processed(df_tx_fee, "month")
          /\ \E d \in DateChoices(Processed(df_tx_fee, "month"), "month"),
                sel \in SUBSET ColumnSet(df_tx_fee, "category") :
                /\ date_range' = [tag |-> "partial", lo |-> d]
                /\ selected_categories' = Selection(sel)
          /\ raised' = "IndexError"
          /\ pc' = "crashed"
          /\ UNCHANGED <<filtered_df_tx_fee, df_pct, blockchain_totals, pivoted_df>>
       \/ \* A full range and a selection among the frame's categories.
          /\ IsDF(df_tx_fee)
          /\ df_tx_fee' = Processed(df_tx_fee, "month")
          /\ \E lo, hi \in DateChoices(Processed(df_tx_fee, "month"), "month"),
                sel \in SUBSET ColumnSet(df_tx_fee, "category") :
                /\ lo <= hi
                /\ date_range' = Range(lo, hi)
                /\ selected_categories' = Selection(sel)
                /\ filtered_df_tx_fee' =
                       FilterData(Processed(df_tx_fee, "month"), "month", "category",
                                  <<lo, hi>>, sel)
          /\ pc' = "check_empty"
          /\ UNCHANGED <<raised, df_pct, blockchain_totals, pivoted_df>>
    /\ UNCHANGED <<page, log, s3_calls, init_ret, globals, df_tps, tpsVars, callVars>>

\* Mutant of NoDataReturn: the return left out, main warns and goes on
\* to the tabs.
NoDataWarnOnly ==
    /\ pc = "check_empty"
    /\ Empty(filtered_df_tx_fee)
    /\ page' = page \cup {"warning: No data available for the selected filters."}
    /\ pc' = "tab2"
    /\ UNCHANGED <<raised, log, s3_calls, init_ret, globals, df_tx_fee, df_tps, feeVars, tpsVars, callVars>>

\* if filtered_df_tx_fee.empty: warning and return, main lines 490-492.
NoDataReturn ==
    /\ pc = "check_empty"
    /\ Empty(filtered_df_tx_fee)
    /\ page' = page \cup {"warning: No data available for the selected filters."}
    /\ pc' = "done"
    /\ UNCHANGED <<raised, log, s3_calls, init_ret, globals, df_tx_fee, df_tps, feeVars, tpsVars, callVars>>

\* create_transaction_fees_chart_stack(filtered_df_tx_fee): a chart of a copy.
create_transaction_fees_chart_stack ==
    /\ pc = "check_empty"
    /\ ~Empty(filtered_df_tx_fee)
    /\ page' = page \cup {"chart: transaction_fee_stack"}
    /\ pc' = "relative"
    /\ UNCHANGED <<raised, log, s3_calls, init_ret, globals, df_tx_fee, df_tps, feeVars, tpsVars, callVars>>

\* create_transaction_fees_chart_relative(filtered_df_tx_fee)
create_transaction_fees_chart_relative ==
    /\ pc = "relative"
    /\ df_pct' = percentage_frame(filtered_df_tx_fee)
    /\ page' = page \cup {"chart: transaction_fee_relative"}
    /\ pc' = "display"
    /\ UNCHANGED <<raised, log, s3_calls, init_ret, globals, df_tx_fee, df_tps,
                   date_range, selected_categories, filtered_df_tx_fee,
                   blockchain_totals, pivoted_df, tpsVars, callVars>>

\* display_metrics_and_table_transaction_fees(filtered_df_tx_fee): the
\* totals and their metrics, then the pivot table; df.pivot raises on a
\* duplicated (month, category) pair and the except clause reports it.
display_metrics_and_table_transaction_fees ==
    /\ pc = "display"
    /\ \E totals \in sort_values_desc(groupby_sum(filtered_df_tx_fee)) :
          blockchain_totals' = Series(totals)
    /\ IF HasDuplicates(filtered_df_tx_fee, "month", "category")
       THEN /\ page' = page \cup {"metrics: Total Fees", "error: Error displaying statistics"}
            /\ UNCHANGED pivoted_df
       ELSE /\ page' = page \cup {"metrics: Total Fees", "table: Monthly Transaction Fees"}
            /\ pivoted_df' =
                   Table(add_total(sort_index_desc(
                       pivot(filtered_df_tx_fee, "month", "category", "gas_fees"))))
    /\ pc' = "tab2"
    /\ UNCHANGED <<raised, log, s3_calls, init_ret, globals, df_tx_fee, df_tps,
                   date_range, selected_categories, filtered_df_tx_fee, df_pct, tpsVars, callVars>>

\* ------------------------------------------------ main: the TPS tab (tab 2)

\* if df_tps is not None and not df_tps.empty: ... else: warning
TpsUnavailable ==
    /\ pc = "tab2"
    /\ NoneOrEmpty(df_tps)
    /\ page' = page \cup {"warning: No TPS data available to display."}
    /\ pc' = "done"
    /\ UNCHANGED <<raised, log, s3_calls, init_ret, globals, df_tx_fee, df_tps, feeVars, tpsVars, callVars>>

\* filtered_df_tps = apply_filters_tps(df_tps), inside the tab's try block.
\* Nothing stores 'date_range' or 'selected_blockchains' in the session
\* state, so both widgets are drawn.
apply_filters_tps ==
    /\ pc = "tab2"
    /\ ~NoneOrEmpty(df_tps)
    /\ df_tps' = Processed(df_tps, "block_date")
    /\ \/ \* A half-entered range: the IndexError is caught by the tab.
          /\ \E d \in DateChoices(Processed(df_tps, "block_date"), "block_date"),
                sel \in SUBSET ColumnSet(df_tps, "blockchain") :
                /\ tps_date_range' = [tag |-> "partial", lo |-> d]
                /\ selected_blockchains' = Selection(sel)
          /\ page' = page \cup {"error: Error in L1 Transactions Per Second tab"}
          /\ pc' = "done"
          /\ UNCHANGED <<filtered_df_tps>>
       \/ /\ \E lo, hi \in DateChoices(Processed(df_tps, "block_date"), "block_date"),
                sel \in SUBSET ColumnSet(df_tps, "blockchain") :
                /\ lo <= hi
                /\ tps_date_range' = Range(lo, hi)
                /\ selected_blockchains' = Selection(sel)
                /\ filtered_df_tps' =
                       FilterData(Processed(df_tps, "block_date"), "block_date", "blockchain",
                                  <<lo, hi>>, sel)
          /\ pc' = "tps_filtered"
          /\ page' = page
    /\ UNCHANGED <<raised, log, s3_calls, init_ret, globals, df_tx_fee, feeVars, pivoted_tps, callVars>>

\* else: st.warning("No TPS data available for the selected filters.")
TpsNoData ==
    /\ pc = "tps_filtered"
    /\ Empty(filtered_df_tps)
    /\ page' = page \cup {"warning: No TPS data available for the selected filters."}
    /\ pc' = "done"
    /\ UNCHANGED <<raised, log, s3_calls, init_ret, globals, df_tx_fee, df_tps, feeVars, tpsVars, callVars>>

\* create_tps_chart(filtered_df_tps): a chart of a copy.
create_tps_chart ==
    /\ pc = "tps_filtered"
    /\ ~Empty(filtered_df_tps)
    /\ page' = page \cup {"chart: tps_chart"}
    /\ pc' = "tps_display"
    /\ UNCHANGED <<raised, log, s3_calls, init_ret, globals, df_tx_fee, df_tps, feeVars, tpsVars, callVars>>

\* display_metrics_and_table_tps(filtered_df_tps): the latest-day metrics,
\* then the pivot table of means, newest day first.  No Total column.
display_metrics_and_table_tps ==
    /\ pc = "tps_display"
    /\ pivoted_tps' =
           Table(sort_index_desc(
               pivot_table_mean(filtered_df_tps, "block_date", "blockchain", "tps")))
    /\ page' = page \cup {"metrics: Top Blockchains by TPS", "table: Transactions Per Second"}
    /\ pc' = "done"
    /\ UNCHANGED <<raised, log, s3_calls, init_ret, globals, df_tx_fee, df_tps, feeVars,
                   tps_date_range, selected_blockchains, filtered_df_tps, callVars>>

\* ---------------------------------------------------------- specifications

Next ==
    \/ initialize_aws
    \/ FetchTxFee
    \/ FetchTps
    \/ CheckReturned
    \/ apply_filters
    \/ NoDataReturn
    \/ create_transaction_fees_chart_stack
    \/ create_transaction_fees_chart_relative
    \/ display_metrics_and_table_transaction_fees
    \/ TpsUnavailable
    \/ apply_filters_tps
    \/ TpsNoData
    \/ create_tps_chart
    \/ display_metrics_and_table_tps

\* One run of main in a fresh process.
Spec == Init /\ [][Next]_vars


\* ------------------------------------------- the stages on fetched frames

\* A TPS frame as fetch_tps_data returns it for two records of one day,
\* one spelled avalanche_c and one avalanche.
TwoAvalanche ==
    TitleChains(DF(<<
        [block_date |-> StrCell(1, 0, "date"), blockchain |-> "avalanche_c", tps |-> 0],
        [block_date |-> StrCell(1, 0, "date"), blockchain |-> "avalanche", tps |-> 1]>>))

\* main at line 487 with a fetched fee frame of up to MaxLen rows; the TPS
\* fetch has failed on a missing object or has returned TwoAvalanche.
InitFee ==
    /\ pc = "filter"
    /\ raised = "None"
    /\ df_tps \in {NoneV, TwoAvalanche}
    /\ page = IF df_tps = NoneV THEN {"warning: No TPS data returned."} ELSE {}
    /\ log = IF df_tps = NoneV THEN {LogEntry("fetch_s3_object", "NoSuchKey", {})} ELSE {}
    /\ s3_calls = {TPS_FILE}
    /\ init_ret = "True"
    /\ aws_access_key_id = "key"
    /\ aws_secret_access_key = "secret"
    /\ aws_bucket_name = "bucket"
    /\ aws_json_file = "json_file"
    /\ region_name = "region"
    /\ s3_client = "client"
    /\ df_tx_fee \in FeeFrames
    /\ date_range = Unbound
    /\ selected_categories = Unbound
    /\ filtered_df_tx_fee = Unbound
    /\ df_pct = Unbound
    /\ blockchain_totals = Unbound
    /\ pivoted_df = Unbound
    /\ tps_date_range = Unbound
    /\ selected_blockchains = Unbound
    /\ filtered_df_tps = Unbound
    /\ pivoted_tps = Unbound
    /\ served = Unbound
    /\ ret = Unbound

\* The fee frame of the runs that start at the TPS tab, after apply_filters.
OneFee == DF(<<[month |-> TsCell(1, 0), category |-> "ETH", gas_fees |-> 1]>>)

\* main at line 519 with a fetched TPS frame of up to MaxLen rows, the fee
\* tab having been drawn for OneFee with nothing filtered out.
InitTps ==
    /\ pc = "tab2"
    /\ raised = "None"
    /\ page = {"chart: transaction_fee_stack", "chart: transaction_fee_relative",
               "metrics: Total Fees", "table: Monthly Transaction Fees"}
    /\ log = {}
    /\ s3_calls = {TPS_FILE}
    /\ init_ret = "True"
    /\ aws_access_key_id = "key"
    /\ aws_secret_access_key = "secret"
    /\ aws_bucket_name = "bucket"
    /\ aws_json_file = "json_file"
    /\ region_name = "region"
    /\ s3_client = "client"
    /\ df_tx_fee = OneFee
    /\ df_tps \in TpsFrames
    /\ date_range = Range(1, 1)
    /\ selected_categories = Selection({"ETH"})
    /\ filtered_df_tx_fee = OneFee
    /\ df_pct = percentage_frame(OneFee)
    /\ blockchain_totals = Series(groupby_sum(OneFee))
    /\ pivoted_df = Table(add_total(sort_index_desc(
                              pivot(OneFee, "month", "category", "gas_fees"))))
    /\ tps_date_range = Unbound
    /\ selected_blockchains = Unbound
    /\ filtered_df_tps = Unbound
    /\ pivoted_tps = Unbound
    /\ served = Unbound
    /\ ret = Unbound

NextPipe ==
    \/ apply_filters
    \/ NoDataReturn
    \/ create_transaction_fees_chart_stack
    \/ create_transaction_fees_chart_relative
    \/ display_metrics_and_table_transaction_fees
    \/ TpsUnavailable
    \/ apply_filters_tps
    \/ TpsNoData
    \/ create_tps_chart
    \/ display_metrics_and_table_tps

\* The filter, aggregation and shaping stages of main on every fetched
\* frame of up to MaxLen rows.
InitPipe == InitFee \/ InitTps
PipeSpec == InitPipe /\ [][NextPipe]_vars

\* ------------------------------------------------- data.py called directly

\* A fresh process and a bucket that serves one object, whatever the key.
InitData ==
    /\ pc = "data"
    /\ raised = "None"
    /\ page = {}
    /\ log = {}
    /\ s3_calls = {}
    /\ init_ret = "None"
    /\ aws_access_key_id = "None"
    /\ aws_secret_access_key = "None"
    /\ aws_bucket_name = "None"
    /\ aws_json_file = "None"
    /\ region_name = "None"
    /\ s3_client = "None"
    /\ df_tx_fee = Unbound
    /\ df_tps = Unbound
    /\ date_range = Unbound
    /\ selected_categories = Unbound
    /\ filtered_df_tx_fee = Unbound
    /\ df_pct = Unbound
    /\ blockchain_totals = Unbound
    /\ pivoted_df = Unbound
    /\ tps_date_range = Unbound
    /\ selected_blockchains = Unbound
    /\ filtered_df_tps = Unbound
    /\ pivoted_tps = Unbound
    /\ served \in Outcomes(FeePayloads) \cup Outcomes(TpsPayloads)
    /\ ret = Unbound

mainVars == <<raised, page, df_tx_fee, df_tps, feeVars, tpsVars>>

\* The value of one direct call: which function, and what it returned.
Returned(fn, value) == [tag |-> "ret", fn |-> fn, value |-> value]

\* initialize_aws()
call_initialize_aws ==
    /\ pc = "data"
    /\ \E secrets \in SecretsKinds, connect \in ConnectKinds :
          InitializeAwsCall(secrets, connect)
    /\ ret' = Returned("initialize_aws", [tag |-> init_ret'])
    /\ UNCHANGED <<pc, mainVars, served>>

\* fetch_tx_fee("DUNE_QUERY_4667263.json")
call_fetch_tx_fee ==
    /\ pc = "data"
    /\ LET r == fetch_tx_fee(s3_client, aws_json_file, FEE_FILE, served)
       IN  /\ ret' = Returned("fetch_tx_fee", r.ret)
           /\ log' = r.log
           /\ s3_calls' = r.calls
    /\ UNCHANGED <<pc, mainVars, served, init_ret, globals>>

\* fetch_tps_data("DUNE_QUERY_4660344.json")
call_fetch_tps_data ==
    /\ pc = "data"
    /\ LET r == fetch_tps_data(s3_client, aws_json_file, TPS_FILE, served)
       IN  /\ ret' = Returned("fetch_tps_data", r.ret)
           /\ log' = r.log
           /\ s3_calls' = r.calls
    /\ UNCHANGED <<pc, mainVars, served, init_ret, globals>>

\* fetch_s3_object("DUNE_QUERY_4667263.json")
call_fetch_s3_object ==
    /\ pc = "data"
    /\ LET r == fetch_s3_object(s3_client, FEE_FILE, served)
       IN  /\ ret' = Returned("fetch_s3_object", r.ret)
           /\ log' = r.log
           /\ s3_calls' = r.calls
    /\ UNCHANGED <<pc, mainVars, served, init_ret, globals>>

\* fetch_json_data() and fetch_json_data("DUNE_QUERY_4667263.json")
call_fetch_json_data ==
    /\ pc = "data"
    /\ \E file_name \in {"None", FEE_FILE} :
          LET r == fetch_json_data(s3_client, aws_json_file, file_name, served)
          IN  /\ ret' = Returned("fetch_json_data", r.ret)
              /\ log' = r.log
              /\ s3_calls' = r.calls
    /\ UNCHANGED <<pc, mainVars, served, init_ret, globals>>

\* fetch_csv_data("DUNE_QUERY_4667263.json")
call_fetch_csv_data ==
    /\ pc = "data"
    /\ \E parses \in BOOLEAN :
          LET r == fetch_csv_data(s3_client, FEE_FILE, served, parses)
          IN  /\ ret' = Returned("fetch_csv_data", r.ret)
              /\ log' = r.log
              /\ s3_calls' = r.calls
    /\ UNCHANGED <<pc, mainVars, served, init_ret, globals>>

\* list_bucket_files()
call_list_bucket_files ==
    /\ pc = "data"
    /\ \E listing \in ListKinds :
          LET r == list_bucket_files(s3_client, listing)
          IN  /\ ret' = Returned("list_bucket_files", r.ret)
              /\ log' = r.log
              /\ s3_calls' = r.calls
    /\ UNCHANGED <<pc, mainVars, served, init_ret, globals>>

NextData ==
    \/ call_initialize_aws
    \/ call_fetch_s3_object
    \/ call_fetch_json_data
    \/ call_fetch_csv_data
    \/ call_fetch_tx_fee
    \/ call_fetch_tps_data
    \/ call_list_bucket_files

\* data.py's functions called in any order against one bucket.
DataSpec == InitData /\ [][NextData]_vars


\* ------------------------------------------------------------------ claims

RECURSIVE SumOver(_, _)
SumOver(S, f) ==
    IF S = {} THEN 0
    ELSE LET x == CHOOSE y \in S : TRUE IN f[x] + SumOver(S \ {x}, f)

Occurrences(rows, r) == Cardinality({i \in DOMAIN rows : rows[i] = r})

\* The rows of df at one (period, category) pair, and the rows of one key.
PairRows(df, icol, ccol, p, c) ==
    {i \in DOMAIN df.rows : df.rows[i][icol] = p /\ df.rows[i][ccol] = c}
KeyRows(df, col, key) == {i \in DOMAIN df.rows : df.rows[i][col] = key}
ValueSum(df, S, vcol) == SumOver(S, [i \in S |-> df.rows[i][vcol]])

\* The record passes the criteria: its calendar date is within the range,
\* both ends included, and its category is selected.
Passes(r, pcol, ccol, range, sel) ==
    /\ range.lo <= r[pcol].day
    /\ r[pcol].day <= range.hi
    /\ r[ccol] \in sel.items

FilterExact(df, out, pcol, ccol, range, sel) ==
    /\ \A i \in DOMAIN out.rows :
          /\ Passes(out.rows[i], pcol, ccol, range, sel)
          /\ Occurrences(out.rows, out.rows[i]) = Occurrences(df.rows, out.rows[i])
    /\ \A i \in DOMAIN df.rows :
          Passes(df.rows[i], pcol, ccol, range, sel)
              => Occurrences(out.rows, df.rows[i]) = Occurrences(df.rows, df.rows[i])

\* C1: the filter keeps a record if and only if its calendar date lies in
\* [period_start, period_end], both ends included and the time of day
\* ignored, and its category is selected; for the fee and the TPS filter.
C1_FilterRetainsExactly ==
    /\ IsDF(filtered_df_tx_fee) =>
          FilterExact(df_tx_fee, filtered_df_tx_fee, "month", "category",
                      date_range, selected_categories)
    /\ IsDF(filtered_df_tps) =>
          FilterExact(df_tps, filtered_df_tps, "block_date", "blockchain",
                      tps_date_range, selected_blockchains)

\* C1 witness: the fee filter kept a record of the last day of the range
\* taken later than midnight, and dropped another record.
C1_Witness ==
    /\ IsDF(filtered_df_tx_fee)
    /\ pc = "check_empty"
    /\ Len(filtered_df_tx_fee.rows) < Len(df_tx_fee.rows)
    /\ \E i \in DOMAIN filtered_df_tx_fee.rows :
          /\ filtered_df_tx_fee.rows[i]["month"].tod = 1
          /\ filtered_df_tx_fee.rows[i]["month"].day = date_range.hi

\* C2: when the fee fetch returned None, main does not crash and ends as
\* it does for an empty filtered result, with the no-data warning.
C2_AbsentDataIsNoData ==
    (df_tx_fee = NoneV /\ pc \notin {"fetch_tps", "check_returned", "filter"}) =>
        /\ pc = "done"
        /\ raised = "None"
        /\ "warning: No data available for the selected filters." \in page

\* The display stage of the fee tab has run.
FeeDisplayed == blockchain_totals.tag = "series" /\ IsDF(filtered_df_tx_fee)

\* Some (period, category) pair has two or more records.
RepeatedPair(df, icol, ccol) ==
    \E i \in DOMAIN df.rows :
        Cardinality(PairRows(df, icol, ccol, df.rows[i][icol], df.rows[i][ccol])) >= 2

\* Every cell of a pair with two or more records holds the sum of their values.
RepeatsSummed(df, pt, icol, ccol, vcol) ==
    \A i \in DOMAIN df.rows :
        LET p == df.rows[i][icol]
            c == df.rows[i][ccol]
            S == PairRows(df, icol, ccol, p, c)
        IN  Cardinality(S) >= 2 => pt.cell[p, c] = Num(ValueSum(df, S, vcol))

\* C3 as stated: records sharing a (period, category) pair are summed in
\* the cell of the pivot, neither rejected nor averaged.
C3_DuplicatesSummed ==
    /\ FeeDisplayed =>
          /\ pivoted_df.tag = "table"
          /\ RepeatsSummed(filtered_df_tx_fee, pivoted_df.t, "month", "category", "gas_fees")
    /\ pivoted_tps.tag = "table" =>
          RepeatsSummed(filtered_df_tps, pivoted_tps.t, "block_date", "blockchain", "tps")

\* C3 amended: on a repeated (month, category) pair the fee pivot raises,
\* the error is displayed and no fee table is made; the TPS pivot holds the
\* mean of the values of a repeated (block_date, blockchain) pair.
C3_DuplicatesRejectedOrAveraged ==
    /\ (FeeDisplayed /\ RepeatedPair(filtered_df_tx_fee, "month", "category")) =>
          /\ pivoted_df = Unbound
          /\ "error: Error displaying statistics" \in page
          /\ "table: Monthly Transaction Fees" \notin page
    /\ pivoted_tps.tag = "table" =>
          \A i \in DOMAIN filtered_df_tps.rows :
              LET p == filtered_df_tps.rows[i]["block_date"]
                  c == filtered_df_tps.rows[i]["blockchain"]
                  S == PairRows(filtered_df_tps, "block_date", "blockchain", p, c)
                  cell == pivoted_tps.t.cell[p, c]
              IN  Cardinality(S) >= 2 =>
                      /\ cell.k = "num"
                      /\ cell.n * Cardinality(S) = cell.d * ValueSum(filtered_df_tps, S, "tps")

\* C3 witness: the fee pivot was refused for a repeated pair, and a TPS
\* cell holds the mean 1/2 of the two values 0 and 1 of its pair.
C3_Witness ==
    /\ FeeDisplayed
    /\ RepeatedPair(filtered_df_tx_fee, "month", "category")
    /\ pivoted_df = Unbound
    /\ pivoted_tps.tag = "table"
    /\ \E i \in DOMAIN filtered_df_tps.rows :
          LET p == filtered_df_tps.rows[i]["block_date"]
              c == filtered_df_tps.rows[i]["blockchain"]
              S == PairRows(filtered_df_tps, "block_date", "blockchain", p, c)
          IN  /\ Cardinality(S) = 2
              /\ ValueSum(filtered_df_tps, S, "tps") = 1
              /\ pivoted_tps.t.cell[p, c] = Frac(1, 2)

\* The Total of every row is the sum of the row's category cells, a cell
\* of an absent pair adding nothing.
TotalIsRowSum(pt) ==
    \A i \in DOMAIN pt.index :
        LET p == pt.index[i]
            present == {j \in DOMAIN pt.columns : pt.cell[p, pt.columns[j]].k = "num"}
        IN  /\ \A j \in present : pt.cell[p, pt.columns[j]].d = 1
            /\ pt.Total[p] = Num(SumOver(present, [j \in present |-> pt.cell[p, pt.columns[j]].n]))

\* C4 as stated: every pivot table made for display, the fee table and the
\* TPS table, has a Total column equal to the row sums.
C4_EveryTableHasTotal ==
    /\ pivoted_df.tag = "table" => TotalIsRowSum(pivoted_df.t)
    /\ pivoted_tps.tag = "table" =>
          /\ "Total" \in DOMAIN pivoted_tps.t
          /\ TotalIsRowSum(pivoted_tps.t)

\* C4 amended: every row of the fee pivot table has a Total equal to the
\* sum of its category cells, which is the sum of the values of the
\* period's records; the TPS pivot table has no Total column.
C4_FeeTableHasTotal ==
    /\ pivoted_df.tag = "table" =>
          /\ TotalIsRowSum(pivoted_df.t)
          /\ \A i \in DOMAIN pivoted_df.t.index :
                LET p == pivoted_df.t.index[i]
                IN  pivoted_df.t.Total[p] =
                        Num(ValueSum(filtered_df_tx_fee,
                                     KeyRows(filtered_df_tx_fee, "month", p), "gas_fees"))
    /\ pivoted_tps.tag = "table" => "Total" \notin DOMAIN pivoted_tps.t

\* C4 witness: a fee table of two periods and two categories, each row
\* with one cell absent, and a row whose Total is not zero.
C4_Witness ==
    /\ pivoted_df.tag = "table"
    /\ Len(pivoted_df.t.index) = 2
    /\ Len(pivoted_df.t.columns) = 2
    /\ \E i \in DOMAIN pivoted_df.t.index :
          /\ pivoted_df.t.Total[pivoted_df.t.index[i]] = Num(1)
          /\ \E j \in DOMAIN pivoted_df.t.columns :
                pivoted_df.t.cell[pivoted_df.t.index[i], pivoted_df.t.columns[j]] = NaN

\* The totals hold one entry per category of the frame, with its sum.
TotalsPerCategory(df, totals) ==
    /\ {totals[i].category : i \in DOMAIN totals} = {df.rows[i]["category"] : i \in DOMAIN df.rows}
    /\ \A i, j \in DOMAIN totals : totals[i].category = totals[j].category => i = j
    /\ \A i \in DOMAIN totals :
          totals[i].total =
              ValueSum(df, KeyRows(df, "category", totals[i].category), "gas_fees")

TotalsDescending(totals) ==
    \A i, j \in DOMAIN totals : i < j => totals[i].total >= totals[j].total

\* The row at which a category first appears.
FirstRow(df, c) == SetMin(KeyRows(df, "category", c))

\* C5 as stated: one entry per category with its sum, by sum descending,
\* equal sums in the order in which the categories first appear.
C5_TiesInFirstEncounteredOrder ==
    FeeDisplayed =>
        /\ TotalsPerCategory(filtered_df_tx_fee, blockchain_totals.items)
        /\ TotalsDescending(blockchain_totals.items)
        /\ \A i, j \in DOMAIN blockchain_totals.items :
              (i < j /\ blockchain_totals.items[i].total = blockchain_totals.items[j].total)
                  => FirstRow(filtered_df_tx_fee, blockchain_totals.items[i].category)
                         < FirstRow(filtered_df_tx_fee, blockchain_totals.items[j].category)

\* C5 amended: one entry per category with its sum, by sum descending;
\* nothing is promised about the order of categories with equal sums.
C5_TotalsDescending ==
    FeeDisplayed =>
        /\ TotalsPerCategory(filtered_df_tx_fee, blockchain_totals.items)
        /\ TotalsDescending(blockchain_totals.items)

\* C5 witness: two categories with different sums, the larger sum first
\* although its label sorts last and its records come last.
C5_Witness ==
    /\ FeeDisplayed
    /\ Len(blockchain_totals.items) = 2
    /\ blockchain_totals.items[1].category = "ETH"
    /\ blockchain_totals.items[1].total > blockchain_totals.items[2].total
    /\ FirstRow(filtered_df_tx_fee, "BTC") < FirstRow(filtered_df_tx_fee, "ETH")

\* C6: with no category selected the filter returns zero records, for
\* every frame and every date range (a start and an end date), as a result
\* and not as an exception.
C6_EmptySelectionEmptyResult ==
    /\ (selected_categories = Selection({}) /\ date_range.tag = "range") =>
          /\ IsDF(filtered_df_tx_fee)
          /\ filtered_df_tx_fee.rows = <<>>
          /\ raised = "None"
    /\ (selected_blockchains = Selection({}) /\ tps_date_range.tag = "range") =>
          /\ IsDF(filtered_df_tps)
          /\ filtered_df_tps.rows = <<>>
          /\ raised = "None"
          /\ "error: Error in L1 Transactions Per Second tab" \notin page

\* C6 witness: nothing selected over a range that holds every record of a
\* frame of two days, and main has returned with the no-data warning.
C6_Witness ==
    /\ selected_categories = Selection({})
    /\ date_range = Range(1, 2)
    /\ Len(df_tx_fee.rows) = 2
    /\ pc = "done"
    /\ "warning: No data available for the selected filters." \in page

\* The total of the period of row i over the frame the stage was given.
PeriodTotal(df, i) ==
    ValueSum(df, KeyRows(df, "month", df.rows[i]["month"]), "gas_fees")

\* The percentages of the rows of the period of row i, in row order.
PeriodShares(pct, i) ==
    LET same == [j \in DOMAIN pct.rows |-> pct.rows[j]["month"] = pct.rows[i]["month"]]
        rows == SelectRows(pct.rows, same)
    IN  [j \in DOMAIN rows |-> rows[j]["percentage"]]

\* C7: the share of a record is its value over the total of its period in
\* the filtered frame the stage was given (as a percentage), and the shares
\* of a period with a nonzero total add up to 100%.
C7_SharesOfFilteredPeriod ==
    IsDF(df_pct) =>
        /\ Len(df_pct.rows) = Len(filtered_df_tx_fee.rows)
        /\ \A i \in DOMAIN df_pct.rows :
              LET r == df_pct.rows[i]
                  T == PeriodTotal(filtered_df_tx_fee, i)
              IN  /\ r["month"] = filtered_df_tx_fee.rows[i]["month"]
                  /\ r["category"] = filtered_df_tx_fee.rows[i]["category"]
                  /\ r["gas_fees"] = filtered_df_tx_fee.rows[i]["gas_fees"]
                  /\ r["total_fees"] = T
                  /\ T # 0 =>
                        /\ r["percentage"].k = "num"
                        /\ r["percentage"].n * T = 100 * r["gas_fees"] * r["percentage"].d
                        /\ FSum(PeriodShares(df_pct, i)) = Num(100)

\* C7 witness: a period of two records with shares of 50% each.
C7_Witness ==
    /\ IsDF(df_pct)
    /\ Len(df_pct.rows) = 2
    /\ df_pct.rows[1]["month"] = df_pct.rows[2]["month"]
    /\ df_pct.rows[1]["percentage"] = Num(50)
    /\ df_pct.rows[2]["percentage"] = Num(50)

\* Every record of the period of row i has the value 0.
AllZeroPeriod(df, i) ==
    \A j \in KeyRows(df, "month", df.rows[i]["month"]) : df.rows[j]["gas_fees"] = 0

\* C8: a period whose records all have the value 0 does not make the
\* percentage stage raise; every record of the period gets NaN, and the
\* other periods get the shares they get without that period.
C8_ZeroPeriodIsNaN ==
    IsDF(df_pct) =>
        /\ raised = "None"
        /\ "chart: transaction_fee_relative" \in page
        /\ \A i \in DOMAIN df_pct.rows :
              AllZeroPeriod(filtered_df_tx_fee, i) => df_pct.rows[i]["percentage"] = NaN
        /\ LET keep == [i \in DOMAIN df_pct.rows |-> ~AllZeroPeriod(filtered_df_tx_fee, i)]
           IN  SelectRows(df_pct.rows, keep)
                   = percentage_frame(DF(SelectRows(filtered_df_tx_fee.rows, keep))).rows

\* C8 witness: one period of zeros with a NaN share beside a period with a
\* share of 100%.
C8_Witness ==
    /\ IsDF(df_pct)
    /\ Len(df_pct.rows) = 2
    /\ df_pct.rows[1]["gas_fees"] = 0
    /\ df_pct.rows[1]["percentage"] = NaN
    /\ df_pct.rows[2]["percentage"] = Num(100)

\* A direct call of fn got a JSON body with records, from a client.
FetchedJson(fn) ==
    /\ ret.tag = "ret"
    /\ ret.fn = fn
    /\ s3_client = "client"
    /\ served.res = "Json"
    /\ served.rows # <<>>

\* C9: when a required column is absent from the fetched records, the
\* fetch returns no frame at all and reports exactly the missing required
\* columns; for fetch_tx_fee and for fetch_tps_data.
C9_MissingColumnsFailTheFetch ==
    /\ (FetchedJson("fetch_tx_fee") /\ ~(FeeColumns \subseteq served.cols)) =>
          /\ ret.value = NoneV
          /\ {e \in log : e.msg = "Missing columns"}
                 = {LogEntry("fetch_tx_fee", "Missing columns", FeeColumns \ served.cols)}
    /\ (FetchedJson("fetch_tps_data") /\ ~(TpsColumns \subseteq served.cols)) =>
          /\ ret.value = NoneV
          /\ {e \in log : e.msg = "Missing columns"}
                 = {LogEntry("fetch_tps_data", "Missing columns", TpsColumns \ served.cols)}

\* C9 witness: fetch_tx_fee got records with month and another column but
\* neither category nor gas_fees, and returned None.
C9_Witness ==
    /\ FetchedJson("fetch_tx_fee")
    /\ served.cols = {"month", "extra"}
    /\ ret.value = NoneV
    /\ LogEntry("fetch_tx_fee", "Missing columns", {"category", "gas_fees"}) \in log

\* C10: no stage changes the frame it is given: the frames main passes to
\* the filters and the filtered frames it passes on stay as they are.
C10_StagesLeaveInputUnchanged ==
    [][/\ IsDF(df_tx_fee) => df_tx_fee' = df_tx_fee
       /\ IsDF(df_tps) => df_tps' = df_tps
       /\ IsDF(filtered_df_tx_fee) => filtered_df_tx_fee' = filtered_df_tx_fee
       /\ IsDF(filtered_df_tps) => filtered_df_tps' = filtered_df_tps]_vars

\* C11: the totals per category add up to the sum of the values of all the
\* records the totals were computed from: nothing is lost or counted twice.
C11_TotalMassConserved ==
    FeeDisplayed =>
        SeqSum([i \in DOMAIN blockchain_totals.items |-> blockchain_totals.items[i].total])
            = SeqSum([i \in DOMAIN filtered_df_tx_fee.rows |->
                         filtered_df_tx_fee.rows[i]["gas_fees"]])

\* C11 witness: two records of one category, each of value 1, and one
\* total of 2.
C11_Witness ==
    /\ FeeDisplayed
    /\ Len(filtered_df_tx_fee.rows) = 2
    /\ Len(blockchain_totals.items) = 1
    /\ blockchain_totals.items[1].total = 2

\* The rows of the table are the distinct periods of the frame, each once,
\* every row later than the one below it.
RowsAreDistinctPeriodsDescending(df, pt, icol) ==
    /\ {pt.index[i] : i \in DOMAIN pt.index} = {df.rows[i][icol] : i \in DOMAIN df.rows}
    /\ \A i, j \in DOMAIN pt.index : i < j => TsKey(pt.index[i]) > TsKey(pt.index[j])

\* C12: a pivot table has exactly one row for each distinct period of its
\* input and no other row, in strictly descending period order; for the
\* fee table and the TPS table, whatever the order of the input.
C12_RowsDistinctPeriodsDescending ==
    /\ pivoted_df.tag = "table" =>
          RowsAreDistinctPeriodsDescending(filtered_df_tx_fee, pivoted_df.t, "month")
    /\ pivoted_tps.tag = "table" =>
          RowsAreDistinctPeriodsDescending(filtered_df_tps, pivoted_tps.t, "block_date")

\* C12 witness: a fee table of two periods made from a frame whose first
\* record is of the earlier period.
C12_Witness ==
    /\ pivoted_df.tag = "table"
    /\ Len(pivoted_df.t.index) = 2
    /\ TsKey(filtered_df_tx_fee.rows[1]["month"])
           < TsKey(filtered_df_tx_fee.rows[Len(filtered_df_tx_fee.rows)]["month"])
    /\ pivoted_df.t.index[2] = filtered_df_tx_fee.rows[1]["month"]

\* The functions of data.py that read from the storage service.
FetchFunctions ==
    {"fetch_s3_object", "fetch_json_data", "fetch_csv_data",
     "fetch_tx_fee", "fetch_tps_data", "list_bucket_files"}

\* C13: a call of one of the fetch functions or of list_bucket_files made
\* while s3_client is None returns None, sends no request to the storage
\* service and changes no module global.
C13_NoClientNoRequest ==
    [][(s3_client = "None" /\ ret'.tag = "ret" /\ ret'.fn \in FetchFunctions) =>
          /\ ret'.value = NoneV
          /\ s3_calls' = {}
          /\ globals' = globals]_vars

\* C13 witness: credentials are set but no client was made (no bucket
\* name), and list_bucket_files returned None without a request.
C13_Witness ==
    /\ s3_client = "None"
    /\ aws_access_key_id = "key"
    /\ ret.tag = "ret"
    /\ ret.fn = "list_bucket_files"
    /\ ret.value = NoneV
    /\ s3_calls = {}
    /\ LogEntry("list_bucket_files", "AWS not initialized", {}) \in log

\* C14: after a call of initialize_aws that returned False, s3_client is
\* None.
C14_FalseLeavesNoClient ==
    (ret.tag = "ret" /\ ret.fn = "initialize_aws" /\ ret.value.tag = "False")
        => s3_client = "None"

\* What main puts on the page inside the two tabs.
TabItems ==
    {"chart: transaction_fee_stack", "chart: transaction_fee_relative",
     "metrics: Total Fees", "table: Monthly Transaction Fees",
     "error: Error displaying statistics",
     "warning: No TPS data available to display.",
     "warning: No TPS data available for the selected filters.",
     "error: Error in L1 Transactions Per Second tab",
     "chart: tps_chart", "metrics: Top Blockchains by TPS",
     "table: Transactions Per Second"}

\* The TPS tab has been evaluated: its filter has run or it has put
\* something on the page.
TpsTabEvaluated ==
    \/ tps_date_range # Unbound
    \/ filtered_df_tps # Unbound
    \/ pivoted_tps # Unbound
    \/ \E x \in page : x \in {"warning: No TPS data available to display.",
                              "warning: No TPS data available for the selected filters.",
                              "error: Error in L1 Transactions Per Second tab",
                              "chart: tps_chart", "metrics: Top Blockchains by TPS",
                              "table: Transactions Per Second"}

\* C15: in a run of main the TPS tab is evaluated only once the fee filter
\* has given a non-empty result; when the filtered fee frame is empty, main
\* shows the no-data warning and returns with nothing rendered in either
\* tab, whatever the TPS data.
C15_TpsTabOnlyAfterFeeResult ==
    /\ TpsTabEvaluated =>
          (IF IsDF(filtered_df_tx_fee) THEN ~Empty(filtered_df_tx_fee) ELSE FALSE)
    /\ (IF IsDF(filtered_df_tx_fee) THEN Empty(filtered_df_tx_fee) ELSE FALSE) =>
          /\ pc \in {"check_empty", "done"}
          /\ raised = "None"
          /\ page \cap TabItems = {}
          /\ ~TpsTabEvaluated
          /\ pc = "done" => "warning: No data available for the selected filters." \in page

\* C15 witness: main has returned on an empty filtered fee frame with the
\* warning, while the fetched TPS frame holds records.
C15_Witness ==
    /\ pc = "done"
    /\ IF IsDF(filtered_df_tx_fee) THEN Empty(filtered_df_tx_fee) ELSE FALSE
    /\ IF IsDF(df_tps) THEN ~Empty(df_tps) ELSE FALSE
    /\ "warning: No data available for the selected filters." \in page
    /\ tps_date_range = Unbound

=============================================================================
